---------------------------- MODULE Spec2Model ----------------------------
(***************************************************************************)
(* Model of the shamirss crate: src/src/lib.rs (public entry points),      *)
(* src/src/shamirss.rs (create_shares, combine_shares) and                 *)
(* src/src/operations.rs (random, the chunk codec, evaluate).              *)
(*                                                                         *)
(* Scaling.  TLC has 32-bit integers, so the field is scaled down and the  *)
(* shape of the source's numbers is kept: a byte has ByteBase = 2 values   *)
(* (the source: 256), a chunk is U8S_TO_BIG_INT_INITIAL = 3 bytes (the     *)
(* source: 32), and DEFAULT_PRIME = 5 is a prime below                     *)
(* ByteBase^U8S_TO_BIG_INT_INITIAL = 8 and above ByteBase^(3-1) = 4, as    *)
(* the source's prime 2^256 - 189 lies below 256^32 and above 256^31.      *)
(* So, as in the source, a chunk can hold values >= DEFAULT_PRIME (5,6,7), *)
(* some field elements fill the whole chunk width (4) and the others are   *)
(* left-padded.  Where a claim says 32 (64), the model says                *)
(* U8S_TO_BIG_INT_INITIAL (COEFFICIENTS_SIZE).                             *)
(***************************************************************************)
EXTENDS Integers, Sequences, FiniteSets, TLC

\* ------------------------------------------------------------------ bounds
\* The largest total share count a create call is given.
MaxTotal == 3
\* The largest number of random draws one create call may need.
MaxDraws == 5
\* The longest share list handed to combine in SpecCombine.
MaxShares == 3

\* --------------------------------------------------------------- constants
\* The number of values of a byte (u8: 256 in the source).
ByteBase == 2
\* operations.rs:7 DEFAULT_PRIME (scaled).
DEFAULT_PRIME == 5
\* operations.rs:12 U8S_TO_BIG_INT_INITIAL (scaled).
U8S_TO_BIG_INT_INITIAL == 3
\* shamirss.rs:9
COEFFICIENTS_PER_SHARE == 2
\* shamirss.rs:10
COEFFICIENTS_SIZE == COEFFICIENTS_PER_SHARE * U8S_TO_BIG_INT_INITIAL

Byte == 0 .. (ByteBase - 1)

\* ------------------------------------------------------------ Result values
\* Result<T, SSSError>: Ok(v), or Err of one SSSError variant (errors.rs).
Ok(v) == [tag |-> "Ok", kind |-> "", reason |-> "", val |-> v]
Err(kind, reason) == [tag |-> "Err", kind |-> kind, reason |-> reason, val |-> <<>>]
\* No call has returned yet.
NoResult == [tag |-> "None", kind |-> "", reason |-> "", val |-> <<>>]
\* The call aborted (a panic): no Result value exists.
Panic == [tag |-> "Panic", kind |-> "", reason |-> "", val |-> <<>>]

\* The error texts of the source.
ReasonMinBigger == "Minimum value cannot be bigger then total shares."
ReasonSecretSize == "Secret size should be divisible by U8S_TO_BIG_INT_INITIAL without rest"
ReasonNotDivisible == "Share size is not divisible by COEFFICIENTS_SIZE"
ReasonSameSize == "All shares shall have the same size of first_share_count"

\* ------------------------------------------------------------ BigNum (openssl)
\* BigNum::from_slice: the unsigned big-endian integer of the bytes.
RECURSIVE from_slice(_)
from_slice(b) ==
    IF Len(b) = 0 THEN 0
    ELSE from_slice(SubSeq(b, 1, Len(b) - 1)) * ByteBase + b[Len(b)]

\* BigNum::to_vec: the minimal big-endian bytes of a non-negative number
\* (no byte at all for 0).
RECURSIVE to_vec(_)
to_vec(n) ==
    IF n = 0 THEN <<>>
    ELSE Append(to_vec(n \div ByteBase), n % ByteBase)

\* BigNum::nnmod: the non-negative remainder.
nnmod(a, m) == ((a % m) + m) % m

\* Mutant: a number without an inverse is given the inverse 0.
mod_inverse_or_zero(a, n) ==
    LET invs == {b \in 0 .. (n - 1) : nnmod(a * b, n) = 1}
    IN  IF invs = {} THEN <<0>> ELSE <<CHOOSE b \in invs : TRUE>>

\* BigNum::mod_inverse: <<b>> with a*b = 1 (mod n), b in [0, n); <<>> when a
\* has no inverse mod n (openssl reports an error).
mod_inverse(a, n) ==
    LET invs == {b \in 0 .. (n - 1) : nnmod(a * b, n) = 1}
    IN  IF invs = {} THEN <<>> ELSE <<CHOOSE b \in invs : TRUE>>

\* ------------------------------------------------------------ operations.rs
is_proper_size(v) == Len(v) % U8S_TO_BIG_INT_INITIAL = 0

\* Mutant: 0 is never drawn.
random_from_one(upper_limit) == 1 .. (upper_limit - 1)

\* The values rand_range can return for upper_limit: [0, upper_limit).
random(upper_limit) == 0 .. (upper_limit - 1)

ChunkCount(len) ==
    (len + U8S_TO_BIG_INT_INITIAL - 1) \div U8S_TO_BIG_INT_INITIAL

\* Mutant: only whole chunks are converted; a shorter final chunk is dropped.
bytes_to_big_nums_whole_chunks(bytes) ==
    [c \in 1 .. (Len(bytes) \div U8S_TO_BIG_INT_INITIAL) |->
        from_slice(SubSeq(bytes, (c - 1) * U8S_TO_BIG_INT_INITIAL + 1,
                          c * U8S_TO_BIG_INT_INITIAL))]

bytes_to_big_nums(bytes) ==
    [c \in 1 .. ChunkCount(Len(bytes)) |->
        LET start == (c - 1) * U8S_TO_BIG_INT_INITIAL
            end == IF start + U8S_TO_BIG_INT_INITIAL > Len(bytes)
                   THEN Len(bytes)
                   ELSE start + U8S_TO_BIG_INT_INITIAL
        IN  from_slice(SubSeq(bytes, start + 1, end))]

\* vec![0; n]
Zeros(n) == [i \in 1 .. n |-> 0]

\* The bytes big_nums_to_bytes appends for one element.
\* Mutant: no left padding.
big_num_bytes_unpadded(big_int) == to_vec(big_int)

\* Mutant: an element of value 0 gets no bytes at all.
big_num_bytes_zero_skipped(big_int) ==
    LET bytes == to_vec(big_int)
    IN  IF Len(bytes) = 0 THEN <<>>
        ELSE IF Len(bytes) < U8S_TO_BIG_INT_INITIAL
        THEN Zeros(U8S_TO_BIG_INT_INITIAL - Len(bytes)) \o bytes
        ELSE bytes

\* Mutant: the padding zeros follow the bytes of the number.
big_num_bytes_right_padded(big_int) ==
    LET bytes == to_vec(big_int)
    IN  IF Len(bytes) < U8S_TO_BIG_INT_INITIAL
        THEN bytes \o Zeros(U8S_TO_BIG_INT_INITIAL - Len(bytes))
        ELSE bytes

big_num_bytes(big_int) ==
    LET bytes == to_vec(big_int)
    IN  IF Len(bytes) < U8S_TO_BIG_INT_INITIAL
        THEN Zeros(U8S_TO_BIG_INT_INITIAL - Len(bytes)) \o bytes
        ELSE bytes

RECURSIVE big_nums_to_bytes(_)
big_nums_to_bytes(slice) ==
    IF Len(slice) = 0 THEN <<>>
    ELSE big_nums_to_bytes(SubSeq(slice, 1, Len(slice) - 1))
            \o big_num_bytes(slice[Len(slice)])

\* The loop of evaluate, from index i down to 1 (the source's i-1 down to 0).
RECURSIVE evaluate_loop(_, _, _, _, _)
evaluate_loop(slice, i, result, value, prime) ==
    IF i = 0 THEN result
    ELSE LET temp == result * value
             sum == temp + slice[i]
         IN  evaluate_loop(slice, i - 1, nnmod(sum, prime), value, prime)

\* Mutant: the loop starts one index too low and never reads the leading
\* coefficient.
evaluate_skips_leading(slice, value, prime) ==
    evaluate_loop(slice, Len(slice) - 1, 0, value, prime)

\* Mutant: the loop runs from the lowest index up.
evaluate_ascending(slice, value, prime) ==
    evaluate_loop([i \in 1 .. Len(slice) |-> slice[Len(slice) + 1 - i]],
                  Len(slice), 0, value, prime)

evaluate(slice, value, prime) == evaluate_loop(slice, Len(slice), 0, value, prime)


\* ------------------------------------------------- shamirss.rs: combine_shares
\* Option<usize>: <<>> is None, <<n>> is Some(n).
None == <<>>
Some(n) == <<n>>

\* The validation and decoding loop over the shares (lines 77-100), from share
\* idx on: Err at the first offending share, else Ok(first_share_count).
RECURSIVE validate_loop(_, _, _)
\* Mutant: the divisibility check (lines 78-82) is missing.
validate_loop_no_divisibility(shares, idx, first_share_count) ==
    IF idx > Len(shares) THEN Ok(first_share_count)
    ELSE LET share_count == Len(shares[idx]) \div COEFFICIENTS_SIZE
         IN  IF first_share_count # None /\ share_count # first_share_count[1]
             THEN Err("WithReason", ReasonSameSize)
             ELSE validate_loop(shares, idx + 1,
                                IF first_share_count = None THEN Some(share_count)
                                ELSE first_share_count)

\* Mutant: the divisibility of all remaining shares is tested before the
\* size of the share at idx.
validate_loop_divisibility_first(shares, idx, first_share_count) ==
    IF idx > Len(shares) THEN Ok(first_share_count)
    ELSE LET share == shares[idx]
             share_count == Len(share) \div COEFFICIENTS_SIZE
         IN  IF \E i \in idx .. Len(shares) : Len(shares[i]) % COEFFICIENTS_SIZE # 0
             THEN Err("WithReason", ReasonNotDivisible)
             ELSE IF first_share_count # None /\ share_count # first_share_count[1]
             THEN Err("WithReason", ReasonSameSize)
             ELSE validate_loop(shares, idx + 1,
                                IF first_share_count = None THEN Some(share_count)
                                ELSE first_share_count)

\* Mutant: the equal-size check (lines 83-92) rejects only a share of fewer
\* chunks than the first.
validate_loop_fewer_only(shares, idx, first_share_count) ==
    IF idx > Len(shares) THEN Ok(first_share_count)
    ELSE LET share == shares[idx]
             share_count == Len(share) \div COEFFICIENTS_SIZE
         IN  IF Len(share) % COEFFICIENTS_SIZE # 0
             THEN Err("WithReason", ReasonNotDivisible)
             ELSE IF first_share_count # None /\ share_count < first_share_count[1]
             THEN Err("WithReason", ReasonSameSize)
             ELSE validate_loop(shares, idx + 1,
                                IF first_share_count = None THEN Some(share_count)
                                ELSE first_share_count)

validate_loop(shares, idx, first_share_count) ==
    IF idx > Len(shares) THEN Ok(first_share_count)
    ELSE LET share == shares[idx]
             share_count == Len(share) \div COEFFICIENTS_SIZE
         IN  IF Len(share) % COEFFICIENTS_SIZE # 0
             THEN Err("WithReason", ReasonNotDivisible)
             ELSE IF first_share_count # None /\ share_count # first_share_count[1]
             THEN Err("WithReason", ReasonSameSize)
             ELSE validate_loop(shares, idx + 1,
                                IF first_share_count = None THEN Some(share_count)
                                ELSE first_share_count)

\* shares_polynomials[s][c]: the two numbers (x, y) of chunk c of share s
\* (lines 93-99).
decode_share(share) ==
    [c \in 1 .. (Len(share) \div COEFFICIENTS_SIZE) |->
        bytes_to_big_nums(SubSeq(share, (c - 1) * COEFFICIENTS_SIZE + 1,
                                 c * COEFFICIENTS_SIZE))]

decode_shares(shares) == [s \in 1 .. Len(shares) |-> decode_share(shares[s])]

\* The 'k_iter loop (lines 114-133) from share k on: <<numerator, denominator>>.
RECURSIVE k_iter(_, _, _, _, _, _, _)
\* Mutant: the loop skips every share up to i, not only share i.
k_iter_later_only(polys, j, i, k, numerator, denominator, prime) ==
    IF k > Len(polys) THEN <<numerator, denominator>>
    ELSE IF k <= i THEN k_iter(polys, j, i, k + 1, numerator, denominator, prime)
    ELSE LET origin == polys[i][j][1]
             current == polys[k][j][1]
             negative == (-1) * current
             added == origin - current
         IN  k_iter(polys, j, i, k + 1,
                    nnmod(numerator * negative, prime),
                    nnmod(denominator * added, prime), prime)

\* Mutant: the abscissas of every chunk are read from the first chunk.
k_iter_first_chunk(polys, j, i, k, numerator, denominator, prime) ==
    IF k > Len(polys) THEN <<numerator, denominator>>
    ELSE IF k = i THEN k_iter(polys, j, i, k + 1, numerator, denominator, prime)
    ELSE LET origin == polys[i][1][1]
             current == polys[k][1][1]
             negative == (-1) * current
             added == origin - current
         IN  k_iter(polys, j, i, k + 1,
                    nnmod(numerator * negative, prime),
                    nnmod(denominator * added, prime), prime)

\* Mutant: the numerator is multiplied by the abscissa, not by its negation.
k_iter_unsigned(polys, j, i, k, numerator, denominator, prime) ==
    IF k > Len(polys) THEN <<numerator, denominator>>
    ELSE IF k = i THEN k_iter(polys, j, i, k + 1, numerator, denominator, prime)
    ELSE LET origin == polys[i][j][1]
             current == polys[k][j][1]
             added == origin - current
         IN  k_iter(polys, j, i, k + 1,
                    nnmod(numerator * current, prime),
                    nnmod(denominator * added, prime), prime)

k_iter(polys, j, i, k, numerator, denominator, prime) ==
    IF k > Len(polys) THEN <<numerator, denominator>>
    ELSE IF k = i THEN k_iter(polys, j, i, k + 1, numerator, denominator, prime)
    ELSE LET origin == polys[i][j][1]
             current == polys[k][j][1]
             negative == (-1) * current
             added == origin - current
         IN  k_iter(polys, j, i, k + 1,
                    nnmod(numerator * negative, prime),
                    nnmod(denominator * added, prime), prime)

\* The loop over the shares i for chunk j (lines 108-149) from share i on:
\* Ok(candidate), or the openssl error of mod_inverse.
RECURSIVE i_iter(_, _, _, _, _)
i_iter(polys, j, i, candidate, prime) ==
    IF i > Len(polys) THEN Ok(candidate)
    ELSE LET origin_y == polys[i][j][2]
             nd == k_iter(polys, j, i, 1, 1, 1, prime)
             working == origin_y * nd[1]
             inverse == mod_inverse(nd[2], prime)
         IN  IF inverse = <<>> THEN Err("FromOpenssl", "mod_inverse")
             ELSE i_iter(polys, j, i + 1,
                         nnmod(candidate + working * inverse[1], prime), prime)

\* The loop over the chunks j (lines 105-152) from chunk j on.
RECURSIVE j_iter(_, _, _, _, _)
j_iter(polys, share_count, j, pre_secret_coeffisiances, prime) ==
    IF j > share_count THEN Ok(big_nums_to_bytes(pre_secret_coeffisiances))
    ELSE LET candidate == i_iter(polys, j, 1, 0, prime)
         IN  IF candidate.tag = "Err" THEN candidate
             ELSE j_iter(polys, share_count, j + 1,
                         Append(pre_secret_coeffisiances, candidate.val), prime)

\* Mutant: combine refuses a list of fewer than two shares.
combine_shares_min_two(shares) ==
    LET valid == validate_loop(shares, 1, None)
    IN  IF valid.tag = "Err" THEN valid
        ELSE IF Len(shares) < 2 THEN Err("WithReason", "Not enough shares")
        ELSE LET share_count == IF valid.val = None THEN 0 ELSE valid.val[1]
             IN  j_iter(decode_shares(shares), share_count, 1, <<>>, DEFAULT_PRIME)

\* Mutant: combine compares the value of all shares with the value of all but
\* the last and reports shares that do not agree.
combine_shares_checked(shares) ==
    LET valid == validate_loop(shares, 1, None)
    IN  IF valid.tag = "Err" THEN valid
        ELSE LET share_count == IF valid.val = None THEN 0 ELSE valid.val[1]
                 all == j_iter(decode_shares(shares), share_count, 1, <<>>, DEFAULT_PRIME)
                 fewer == j_iter(decode_shares(SubSeq(shares, 1, Len(shares) - 1)),
                                 share_count, 1, <<>>, DEFAULT_PRIME)
             IN  IF Len(shares) >= 2 /\ all.tag = "Ok" /\ fewer # all
                 THEN Err("WithReason", "Shares are not consistent")
                 ELSE all

\* Mutant: combine refuses the empty list.
combine_shares_nonempty(shares) ==
    LET valid == validate_loop(shares, 1, None)
    IN  IF Len(shares) = 0 THEN Err("WithReason", "No shares")
        ELSE IF valid.tag = "Err" THEN valid
        ELSE LET share_count == IF valid.val = None THEN 0 ELSE valid.val[1]
             IN  j_iter(decode_shares(shares), share_count, 1, <<>>, DEFAULT_PRIME)

combine_shares(shares) ==
    LET valid == validate_loop(shares, 1, None)
    IN  IF valid.tag = "Err" THEN valid
        ELSE LET share_count == IF valid.val = None THEN 0 ELSE valid.val[1]
             IN  j_iter(decode_shares(shares), share_count, 1, <<>>, DEFAULT_PRIME)

\* The multiplications, subtractions and inversions one call of combine_shares
\* performs (checked_mul, checked_sub, mod_inverse): for chunk j from share i
\* on (lines 108-149), four per share k # i (lines 119-127), then the
\* multiplication of line 136 and the inversion of line 139, and when the
\* inverse exists the multiplication of line 143.
RECURSIVE i_iter_arithmetic(_, _, _, _)
i_iter_arithmetic(polys, j, i, prime) ==
    IF i > Len(polys) THEN 0
    ELSE LET nd == k_iter(polys, j, i, 1, 1, 1, prime)
         IN  4 * (Len(polys) - 1) + 2
             + (IF mod_inverse(nd[2], prime) = <<>> THEN 0
                ELSE 1 + i_iter_arithmetic(polys, j, i + 1, prime))

\* From chunk j on (lines 105-152).
RECURSIVE j_iter_arithmetic(_, _, _, _)
j_iter_arithmetic(polys, share_count, j, prime) ==
    IF j > share_count THEN 0
    ELSE i_iter_arithmetic(polys, j, 1, prime)
         + (IF i_iter(polys, j, 1, 0, prime).tag = "Err" THEN 0
            ELSE j_iter_arithmetic(polys, share_count, j + 1, prime))

\* The longest leading part of the list that the validation loop accepts.
RECURSIVE ValidPrefix(_, _)
ValidPrefix(shares, n) ==
    IF n = 0 \/ validate_loop(SubSeq(shares, 1, n), 1, None).tag = "Ok"
    THEN SubSeq(shares, 1, n)
    ELSE ValidPrefix(shares, n - 1)

\* Mutant: every share is validated only when the interpolation reaches it,
\* so the shares before the first offending one are interpolated.
combine_shares_arithmetic_lazy(shares) ==
    LET prefix == ValidPrefix(shares, Len(shares))
        share_count == IF Len(prefix) = 0 THEN 0
                       ELSE Len(prefix[1]) \div COEFFICIENTS_SIZE
    IN  j_iter_arithmetic(decode_shares(prefix), share_count, 1, DEFAULT_PRIME)

combine_shares_arithmetic(shares) ==
    LET valid == validate_loop(shares, 1, None)
    IN  IF valid.tag = "Err" THEN 0
        ELSE LET share_count == IF valid.val = None THEN 0 ELSE valid.val[1]
             IN  j_iter_arithmetic(decode_shares(shares), share_count, 1, DEFAULT_PRIME)

\* lib.rs
combine_std(shares) == combine_shares(shares)
combine_inlined(shares) == combine_shares(shares)

\* ---------------------------------------------------------------- the state
VARIABLES
    pc,            \* where the caller is: "idle", inside create_shares at a call
                   \* of random ("coefficient", "abscissa"), "returned"
                   \* (create returned), "aborted" (create panicked), "combined"
    min,           \* create_shares: min
    shares,        \* create_shares: shares (the total share count)
    secret,        \* create_shares: secret (bytes)
    polynomial,    \* create_shares: polynomial (kept after the return)
    coefficients,  \* create_shares: coefficients of the part being built
    results,       \* create_shares: results
    bytes,         \* create_shares: bytes of the share being built
    counter,       \* create_shares: counter
    created,       \* the Result create returned
    draws,         \* the number of calls of random made so far
    input,         \* combine_shares: shares (the list handed to combine)
    combined,      \* the Result combine returned
    arithmetic,    \* the multiplications, subtractions and inversions combine
                   \* performed
    codec_bytes,   \* bytes_to_big_nums: bytes
    codec_nums,    \* the elements bytes_to_big_nums returned
    codec_back,    \* the bytes big_nums_to_bytes returned for codec_nums
    eval_slice,    \* evaluate: slice (the coefficients)
    eval_value,    \* evaluate: value
    eval_result    \* the number evaluate returned

vars == <<pc, min, shares, secret, polynomial, coefficients, results, bytes,
          counter, created, draws, input, combined, arithmetic,
          codec_bytes, codec_nums, codec_back, eval_slice, eval_value, eval_result>>

\* The variables of the calls of create and combine, and those of the direct
\* calls of the functions of operations.rs.
shareVars == <<min, shares, secret, polynomial, coefficients, results, bytes,
               counter, created, draws, input, combined, arithmetic>>
codecVars == <<codec_bytes, codec_nums, codec_back>>
evalVars == <<eval_slice, eval_value, eval_result>>

\* No direct call of a function of operations.rs is under way.
NoDirectCall ==
    /\ codec_bytes = <<>>
    /\ codec_nums = <<>>
    /\ codec_back = <<>>
    /\ eval_slice = <<>>
    /\ eval_value = 0
    /\ eval_result = 0

\* The values of the locals of create_shares and its Result at one point.
Frame(pcv, poly, coeffs, res, byt, cnt, cr) ==
    [pc |-> pcv, polynomial |-> poly, coefficients |-> coeffs, results |-> res,
     bytes |-> byt, counter |-> cnt, created |-> cr]

\* ------------------------------------------------- shamirss.rs: create_shares
\* Lines 45-59 from the head of the while loop on, up to the next call of
\* random (line 49) or the return of Ok(results).
RECURSIVE share_loop(_, _, _, _, _, _)
share_loop(total, n, poly, res, byt, cnt) ==
    IF Len(res) >= total THEN Frame("returned", poly, <<>>, res, <<>>, 0, Ok(res))
    ELSE IF cnt < n THEN Frame("abscissa", poly, <<>>, res, byt, cnt, NoResult)
    ELSE share_loop(total, n, poly, Append(res, byt), <<>>, 0)

\* Lines 33-41 from the head of `for _ in 1..min` on, up to the next call of
\* random (line 38) or the share loop.
RECURSIVE part_loop(_, _, _, _, _)
part_loop(m, total, nums, poly, coeffs) ==
    IF Len(coeffs) < m THEN Frame("coefficient", poly, coeffs, <<>>, <<>>, 0, NoResult)
    ELSE LET pushed == Append(poly, coeffs)
         IN  IF Len(pushed) < Len(nums)
             THEN part_loop(m, total, nums, pushed,
                            <<from_slice(to_vec(nums[Len(pushed) + 1]))>>)
             ELSE share_loop(total, Len(nums), pushed, <<>>, <<>>, 0)

\* create_shares from its entry up to the first call of random, its return or
\* its panic: Vec::with_capacity(min - 1) overflows for min = 0 (line 34).
\* Mutant: the check of min against shares (lines 22-26) is missing.
create_shares_unchecked(m, total, s) ==
    LET nums == bytes_to_big_nums(s)
    IN  IF Len(nums) = 0 THEN share_loop(total, 0, <<>>, <<>>, <<>>, 0)
        ELSE IF m = 0 THEN Frame("aborted", <<>>, <<>>, <<>>, <<>>, 0, Panic)
        ELSE part_loop(m, total, nums, <<>>, <<from_slice(to_vec(nums[1]))>>)

\* Mutant: a secret with a chunk number not below the prime is rejected.
create_shares_rejects_large(m, total, s) ==
    LET nums == bytes_to_big_nums(s)
    IN  IF m > total
        THEN Frame("returned", <<>>, <<>>, <<>>, <<>>, 0, Err("WithReason", ReasonMinBigger))
        ELSE IF \E c \in 1 .. Len(nums) : nums[c] >= DEFAULT_PRIME
        THEN Frame("returned", <<>>, <<>>, <<>>, <<>>, 0, Err("WithReason", ReasonSecretSize))
        ELSE IF Len(nums) = 0 THEN share_loop(total, 0, <<>>, <<>>, <<>>, 0)
        ELSE IF m = 0 THEN Frame("aborted", <<>>, <<>>, <<>>, <<>>, 0, Panic)
        ELSE part_loop(m, total, nums, <<>>, <<from_slice(to_vec(nums[1]))>>)

create_shares(m, total, s) ==
    IF m > total
    THEN Frame("returned", <<>>, <<>>, <<>>, <<>>, 0, Err("WithReason", ReasonMinBigger))
    ELSE LET nums == bytes_to_big_nums(s)
         IN  IF Len(nums) = 0 THEN share_loop(total, 0, <<>>, <<>>, <<>>, 0)
             ELSE IF m = 0 THEN Frame("aborted", <<>>, <<>>, <<>>, <<>>, 0, Panic)
             ELSE part_loop(m, total, nums, <<>>, <<from_slice(to_vec(nums[1]))>>)

\* lib.rs
create_std(min_shares_count, total_shares_count, s) ==
    IF ~is_proper_size(s)
    THEN Frame("returned", <<>>, <<>>, <<>>, <<>>, 0, Err("WithReason", ReasonSecretSize))
    ELSE create_shares(min_shares_count, total_shares_count, s)

create_inlined(min_shares_count, total_shares_count, s) ==
    IF ~is_proper_size(s)
    THEN Frame("returned", <<>>, <<>>, <<>>, <<>>, 0, Err("WithReason", ReasonSecretSize))
    ELSE create_shares(min_shares_count, total_shares_count, s)

\* ------------------------------------------------------------------- inputs
\* The secrets handed to create: the empty one; one-chunk secrets (the all-zero
\* chunk, a full-width value below the prime, a value above the prime); a
\* two-chunk secret (a left-padded value, a value above the prime); secrets
\* whose length is no multiple of the chunk size.
OneChunkSecrets == {<<0, 0, 0>>, <<1, 0, 0>>, <<1, 1, 0>>}
TwoChunkSecrets == {<<0, 1, 1, 1, 1, 0>>}
ImproperSecrets == {<<1>>, <<1, 0, 1, 1>>}
Secrets == {<<>>} \cup OneChunkSecrets \cup TwoChunkSecrets \cup ImproperSecrets

\* The calls of random a create call makes when no draw fails.
DrawsNeeded(m, total, s) ==
    IF ~is_proper_size(s) \/ m > total \/ m = 0 THEN 0
    ELSE ChunkCount(Len(s)) * ((m - 1) + total)

SetFrame(f) ==
    /\ pc' = f.pc
    /\ polynomial' = f.polynomial
    /\ coefficients' = f.coefficients
    /\ results' = f.results
    /\ bytes' = f.bytes
    /\ counter' = f.counter
    /\ created' = f.created

\* ------------------------------------------------------------------ actions
Init ==
    /\ pc = "idle"
    /\ min = 0
    /\ shares = 0
    /\ secret = <<>>
    /\ polynomial = <<>>
    /\ coefficients = <<>>
    /\ results = <<>>
    /\ bytes = <<>>
    /\ counter = 0
    /\ created = NoResult
    /\ draws = 0
    /\ input = <<>>
    /\ combined = NoResult
    /\ arithmetic = 0
    /\ NoDirectCall

CreateStd ==
    /\ pc = "idle"
    /\ \E m \in 0 .. (MaxTotal + 1), t \in 0 .. MaxTotal, s \in Secrets :
        /\ DrawsNeeded(m, t, s) <= MaxDraws
        /\ min' = m
        /\ shares' = t
        /\ secret' = s
        /\ SetFrame(create_std(m, t, s))
    /\ UNCHANGED <<codecVars, evalVars>>
    /\ UNCHANGED <<draws, input, combined, arithmetic>>

CreateInlined ==
    /\ pc = "idle"
    /\ \E m \in 0 .. (MaxTotal + 1), t \in 0 .. MaxTotal, s \in Secrets :
        /\ DrawsNeeded(m, t, s) <= MaxDraws
        /\ min' = m
        /\ shares' = t
        /\ secret' = s
        /\ SetFrame(create_inlined(m, t, s))
    /\ UNCHANGED <<codecVars, evalVars>>
    /\ UNCHANGED <<draws, input, combined, arithmetic>>

\* random at line 38 returns r.
DrawCoefficient ==
    /\ pc = "coefficient"
    /\ \E r \in random(DEFAULT_PRIME) :
        SetFrame(part_loop(min, shares, bytes_to_big_nums(secret), polynomial,
                           Append(coefficients, r)))
    /\ draws' = draws + 1
    /\ UNCHANGED <<codecVars, evalVars>>
    /\ UNCHANGED <<min, shares, secret, input, combined, arithmetic>>

\* Mutant: every chunk of a share is evaluated on the polynomial of the first
\* chunk.
DrawAbscissa_first_part ==
    /\ pc = "abscissa"
    /\ \E coefficient_x \in random(DEFAULT_PRIME) :
        LET coefficient_y == evaluate(polynomial[1], coefficient_x, DEFAULT_PRIME)
        IN  SetFrame(share_loop(shares, Len(polynomial), polynomial, results,
                                bytes \o big_nums_to_bytes(<<coefficient_x, coefficient_y>>),
                                counter + 1))
    /\ draws' = draws + 1
    /\ UNCHANGED <<codecVars, evalVars>>
    /\ UNCHANGED <<min, shares, secret, input, combined, arithmetic>>

\* random at line 49 returns coefficient_x; lines 51-54.
DrawAbscissa ==
    /\ pc = "abscissa"
    /\ \E coefficient_x \in random(DEFAULT_PRIME) :
        LET coefficient_y == evaluate(polynomial[counter + 1], coefficient_x, DEFAULT_PRIME)
        IN  SetFrame(share_loop(shares, Len(polynomial), polynomial, results,
                                bytes \o big_nums_to_bytes(<<coefficient_x, coefficient_y>>),
                                counter + 1))
    /\ draws' = draws + 1
    /\ UNCHANGED <<codecVars, evalVars>>
    /\ UNCHANGED <<min, shares, secret, input, combined, arithmetic>>

\* Mutant: after the failed call create returns the shares built so far.
RandomFails_returns_built ==
    /\ pc \in {"coefficient", "abscissa"}
    /\ pc' = "returned"
    /\ created' = Ok(results)
    /\ draws' = draws + 1
    /\ UNCHANGED <<codecVars, evalVars>>
    /\ UNCHANGED <<min, shares, secret, polynomial, coefficients, results, bytes,
                   counter, input, combined, arithmetic>>

\* random returns an error (operations.rs:26); the ? operators return it.
RandomFails ==
    /\ pc \in {"coefficient", "abscissa"}
    /\ pc' = "returned"
    /\ created' = Err("FromOpenssl", "rand_range")
    /\ draws' = draws + 1
    /\ UNCHANGED <<codecVars, evalVars>>
    /\ UNCHANGED <<min, shares, secret, polynomial, coefficients, results, bytes,
                   counter, input, combined, arithmetic>>

\* The index lists i1 < i2 < ... into a list of n shares.
RECURSIVE Selections(_)
Selections(n) ==
    IF n = 0 THEN {<<>>}
    ELSE Selections(n - 1) \cup {Append(sel, n) : sel \in Selections(n - 1)}

\* The caller hands some of the shares create returned to combine_std.
Combine ==
    /\ pc = "returned"
    /\ created.tag = "Ok"
    /\ \E sel \in Selections(Len(created.val)) :
        LET given == [i \in 1 .. Len(sel) |-> created.val[sel[i]]]
        IN  /\ input' = given
            /\ combined' = combine_std(given)
            /\ arithmetic' = combine_shares_arithmetic(given)
    /\ pc' = "combined"
    /\ UNCHANGED <<codecVars, evalVars>>
    /\ UNCHANGED <<min, shares, secret, polynomial, coefficients, results, bytes,
                   counter, created, draws>>

Next ==
    \/ CreateStd
    \/ CreateInlined
    \/ DrawCoefficient
    \/ DrawAbscissa
    \/ RandomFails
    \/ Combine

Spec == Init /\ [][Next]_vars

\* ------------------------------------------------ combine on given share lists
\* A share of one point per chunk: points is a list of <<x, y>>.
ShareOf(points) ==
    IF Len(points) = 1 THEN big_nums_to_bytes(points[1])
    ELSE big_nums_to_bytes(points[1]) \o big_nums_to_bytes(points[2])

\* The shares a caller hands to combine: well-formed one-chunk and two-chunk
\* shares (with abscissas that repeat, that are 0, that are congruent mod the
\* prime, and numbers above the prime), and byte strings of other lengths.
GivenShares ==
    {ShareOf(<<p>>) : p \in {<<0, 2>>, <<1, 3>>, <<2, 0>>, <<3, 4>>, <<6, 1>>, <<4, 7>>}}
    \cup {ShareOf(ps) : ps \in {<<<<1, 3>>, <<2, 2>>>>, <<<<2, 1>>, <<4, 4>>>>,
                               <<<<3, 0>>, <<2, 3>>>>, <<<<4, 2>>, <<0, 1>>>>}}
    \cup {<<>>, <<0, 0, 1, 0, 1>>, <<0, 1, 0, 0, 1, 1, 1>>}

RECURSIVE ListsUpTo(_, _)
ListsUpTo(S, n) ==
    IF n = 0 THEN {<<>>}
    ELSE LET shorter == ListsUpTo(S, n - 1)
         IN  shorter \cup {Append(l, x) : l \in shorter, x \in S}

InitCombine ==
    /\ pc = "given"
    /\ min = 0
    /\ shares = 0
    /\ secret = <<>>
    /\ polynomial = <<>>
    /\ coefficients = <<>>
    /\ results = <<>>
    /\ bytes = <<>>
    /\ counter = 0
    /\ created = NoResult
    /\ draws = 0
    /\ input \in ListsUpTo(GivenShares, MaxShares)
    /\ combined = NoResult
    /\ arithmetic = 0
    /\ NoDirectCall

CombineStd ==
    /\ pc = "given"
    /\ combined' = combine_std(input)
    /\ arithmetic' = combine_shares_arithmetic(input)
    /\ pc' = "combined"
    /\ UNCHANGED <<codecVars, evalVars>>
    /\ UNCHANGED <<min, shares, secret, polynomial, coefficients, results, bytes,
                   counter, created, draws, input>>

CombineInlined ==
    /\ pc = "given"
    /\ combined' = combine_inlined(input)
    /\ arithmetic' = combine_shares_arithmetic(input)
    /\ pc' = "combined"
    /\ UNCHANGED <<codecVars, evalVars>>
    /\ UNCHANGED <<min, shares, secret, polynomial, coefficients, results, bytes,
                   counter, created, draws, input>>

NextCombine ==
    \/ CombineStd
    \/ CombineInlined

SpecCombine == InitCombine /\ [][NextCombine]_vars

\* ------------------------------------------------------ reading share points
\* The abscissa and the ordinate of chunk c (1-based) of a share.
XOf(share, c) ==
    from_slice(SubSeq(share, (c - 1) * COEFFICIENTS_SIZE + 1,
                      (c - 1) * COEFFICIENTS_SIZE + U8S_TO_BIG_INT_INITIAL))
YOf(share, c) ==
    from_slice(SubSeq(share, (c - 1) * COEFFICIENTS_SIZE + U8S_TO_BIG_INT_INITIAL + 1,
                      c * COEFFICIENTS_SIZE))

\* Chunk c (1-based) of a byte string of whole chunks.
Block(b, c) ==
    SubSeq(b, (c - 1) * U8S_TO_BIG_INT_INITIAL + 1, c * U8S_TO_BIG_INT_INITIAL)

\* The shares of the list are well-formed, of cc chunks each, and for every
\* chunk their abscissas are pairwise distinct modulo the prime.
DistinctAbscissas(list, cc) ==
    /\ \A i \in 1 .. Len(list) : Len(list[i]) = cc * COEFFICIENTS_SIZE
    /\ \A c \in 1 .. cc : \A i, k \in 1 .. Len(list) :
        i # k => nnmod(XOf(list[i], c), DEFAULT_PRIME) # nnmod(XOf(list[k], c), DEFAULT_PRIME)

\* A create call of a secret of a positive whole number of chunks returned
\* shares, and combine was applied to some of them.
RoundTripDone ==
    /\ pc = "combined"
    /\ Len(secret) > 0
    /\ 1 <= min

\* ------------------------------------------------------------------- claims
\* C1: Round-trip: for every secret whose length is a positive multiple of the
\* chunk size (every chunk value allowed) and every 1 <= min <= total, combine
\* applied to any subset of size >= min of the shares of one create call
\* returns exactly the bytes of the secret.
C1_RoundTrip ==
    (RoundTripDone /\ Len(input) >= min) => combined = Ok(secret)

\* C2: Secrecy below the threshold: for min >= 2, the points of any set of
\* fewer than min shares of one create call are consistent with every value
\* of the secret chunk: for every candidate value there are random
\* coefficients that produce the same share points.
C2_Secrecy ==
    (pc = "returned" /\ created.tag = "Ok" /\ min >= 2 /\ Len(secret) > 0) =>
        \A sel \in Selections(Len(created.val)) :
            Len(sel) < min =>
                \A c \in 1 .. ChunkCount(Len(secret)) :
                    \A v \in 0 .. (DEFAULT_PRIME - 1) :
                        \E cs \in [1 .. (min - 1) -> 0 .. (DEFAULT_PRIME - 1)] :
                            \A i \in 1 .. Len(sel) :
                                evaluate(<<v>> \o cs, XOf(created.val[sel[i]], c),
                                         DEFAULT_PRIME)
                                    = YOf(created.val[sel[i]], c)

ReducedBlock(v) == big_num_bytes(nnmod(v, DEFAULT_PRIME))

C4_NoThresholdCheck ==
    (RoundTripDone /\ 1 <= Len(input) /\ Len(input) < min
        /\ DistinctAbscissas(input, ChunkCount(Len(secret)))) =>
        /\ combined.tag = "Ok"
        /\ Len(combined.val) = ChunkCount(Len(secret)) * U8S_TO_BIG_INT_INITIAL

\* One share of a min = 3 create call was combined alone.
C4_Witness ==
    /\ RoundTripDone
    /\ min = 3
    /\ Len(input) = 1
    /\ combined.tag = "Ok"
    /\ Len(combined.val) = U8S_TO_BIG_INT_INITIAL

\* The list with its shares in the order perm (a permutation of its indices).
Permuted(list, perm) == [i \in 1 .. Len(list) |-> list[perm[i]]]

\* C5: Shuffle-invariance: for every list of shares on which combine succeeds,
\* combine returns the same bytes for every permutation of that list.
C5_ShuffleInvariant ==
    (pc = "combined" /\ combined.tag = "Ok") =>
        \A perm \in Permutations(1 .. Len(input)) :
            combine_shares(Permuted(input, perm)) = combined

\* Combine succeeded on three different two-chunk shares.
C5_Witness ==
    /\ pc = "combined"
    /\ combined.tag = "Ok"
    /\ Len(input) = 3
    /\ Len(input[1]) = 2 * COEFFICIENTS_SIZE
    /\ input[1] # input[2]
    /\ input[1] # input[3]
    /\ input[2] # input[3]

\* C6: Boundary min = 1: each single share returned by create(1, total, S),
\* passed alone to combine, reconstructs S exactly.
C6_SingleShare ==
    (RoundTripDone /\ min = 1 /\ Len(input) = 1) => combined = Ok(secret)

\* create returned shares.
CreatedOk == pc \in {"returned", "combined"} /\ created.tag = "Ok"

\* C7: a successful create(min, total, secret) returns exactly total shares,
\* each of one COEFFICIENTS_SIZE block per chunk of the secret, whatever the
\* random draws were.
C7_ShareShape ==
    CreatedOk =>
        /\ Len(created.val) = shares
        /\ \A i \in 1 .. Len(created.val) :
            Len(created.val[i])
                = (Len(secret) \div U8S_TO_BIG_INT_INITIAL) * COEFFICIENTS_SIZE

\* create returned two shares of a two-chunk secret.
C7_Witness ==
    /\ CreatedOk
    /\ shares = 2
    /\ Len(secret) = 2 * U8S_TO_BIG_INT_INITIAL
    /\ Len(created.val) = 2
    /\ Len(created.val[2]) = 2 * COEFFICIENTS_SIZE

\* A create call was made (in Spec, the only specification with create).
CreateCalled == pc \in {"coefficient", "abscissa", "returned", "aborted", "combined"}

\* C8: create with min > total returns a validation error (the min/total one
\* when the secret has a proper size), produces no shares, and no call of
\* random precedes the error.
C8_MinAboveTotal ==
    (CreateCalled /\ min > shares) =>
        /\ pc = "returned"
        /\ created.tag = "Err"
        /\ created.kind = "WithReason"
        /\ is_proper_size(secret) => created.reason = ReasonMinBigger
        /\ created.val = <<>>
        /\ results = <<>>
        /\ draws = 0

\* create was called with min > total on a secret of one chunk.
C8_Witness ==
    /\ CreateCalled
    /\ min > shares
    /\ Len(secret) = U8S_TO_BIG_INT_INITIAL
    /\ created = Err("WithReason", ReasonMinBigger)

\* C9: create_std and create_inlined return a validation error, without
\* entering create_shares, for every secret whose length is not a positive
\* multiple of the chunk size, the empty secret included (stated for the calls
\* with 1 <= min <= total, which no other validation rejects).
C9_ImproperSizeRejected ==
    (CreateCalled /\ 1 <= min /\ min <= shares
        /\ ~(Len(secret) > 0 /\ is_proper_size(secret))) =>
        /\ created = Err("WithReason", ReasonSecretSize)
        /\ draws = 0

\* Some share of the list has a length that is no multiple of COEFFICIENTS_SIZE.
SomeNotDivisible(list) ==
    \E i \in 1 .. Len(list) : Len(list[i]) % COEFFICIENTS_SIZE # 0

\* The first such share.
FirstNotDivisible(list) ==
    CHOOSE i \in 1 .. Len(list) :
        /\ Len(list[i]) % COEFFICIENTS_SIZE # 0
        /\ \A k \in 1 .. (i - 1) : Len(list[k]) % COEFFICIENTS_SIZE = 0

\* C10 as stated: combine returns the validation error that names the
\* divisibility constraint whenever some input share has a length that is no
\* multiple of COEFFICIENTS_SIZE.
C10_NamesDivisibility ==
    (pc = "combined" /\ SomeNotDivisible(input)) =>
        combined = Err("WithReason", ReasonNotDivisible)

\* C10 as amended: in that case combine returns a validation error and no
\* secret bytes; the error names the divisibility constraint when every share
\* before the first such share has the length of the first share, and the
\* equal-size constraint otherwise.
C10_ValidationError ==
    (pc = "combined" /\ SomeNotDivisible(input)) =>
        /\ combined.tag = "Err"
        /\ combined.kind = "WithReason"
        /\ combined.val = <<>>
        /\ IF \A k \in 1 .. (FirstNotDivisible(input) - 1) : Len(input[k]) = Len(input[1])
           THEN combined.reason = ReasonNotDivisible
           ELSE combined.reason = ReasonSameSize

\* Combine rejected a list whose third share has a length that is no multiple
\* of COEFFICIENTS_SIZE, after two well-formed shares.
C10_Witness ==
    /\ pc = "combined"
    /\ Len(input) = 3
    /\ Len(input[1]) = COEFFICIENTS_SIZE
    /\ Len(input[2]) = COEFFICIENTS_SIZE
    /\ Len(input[3]) % COEFFICIENTS_SIZE # 0
    /\ combined = Err("WithReason", ReasonNotDivisible)

\* Every share of the list has a byte length that is a whole number of
\* share chunks.
AllDivisible(list) ==
    \A i \in 1 .. Len(list) : Len(list[i]) % COEFFICIENTS_SIZE = 0

\* C11: whenever all shares handed to combine have lengths that are multiples
\* of the share chunk size but two of them differ in length, combine returns
\* the validation error that names the equal-size constraint, and no bytes.
C11_NamesEqualSize ==
    (/\ pc = "combined"
     /\ AllDivisible(input)
     /\ \E i, k \in 1 .. Len(input) : Len(input[i]) # Len(input[k]))
        => /\ combined = Err("WithReason", ReasonSameSize)
           /\ combined.val = <<>>

\* A longer share follows a shorter non-empty one.
C11_Witness ==
    /\ pc = "combined"
    /\ AllDivisible(input)
    /\ \E i, k \in 1 .. Len(input) :
        i < k /\ 0 < Len(input[i]) /\ Len(input[i]) < Len(input[k])
    /\ combined = Err("WithReason", ReasonSameSize)

\* C12: combine enforces the nonzero-length precondition: called with shares
\* whose byte length is 0 it returns a validation error rather than a
\* success.
C12_ZeroLengthRejected ==
    (/\ pc = "combined"
     /\ Len(input) >= 1
     /\ \A i \in 1 .. Len(input) : Len(input[i]) = 0)
        => /\ combined.tag = "Err"
           /\ combined.kind = "WithReason"

\* Shares i and k of the list both have chunk c, with abscissas congruent
\* modulo the prime.
Congruent(list, i, k, c) ==
    /\ i # k
    /\ c * COEFFICIENTS_SIZE <= Len(list[i])
    /\ c * COEFFICIENTS_SIZE <= Len(list[k])
    /\ nnmod(XOf(list[i], c), DEFAULT_PRIME) = nnmod(XOf(list[k], c), DEFAULT_PRIME)

SomeCongruent(list) ==
    \E i, k \in 1 .. Len(list) :
        \E c \in 1 .. (Len(list[i]) \div COEFFICIENTS_SIZE) : Congruent(list, i, k, c)

\* C13: when two of the shares handed to combine carry, for the same chunk,
\* abscissas that are congruent modulo the prime (the same share given twice
\* included), combine returns an error and no bytes.
C13_ZeroDenominatorReported ==
    (pc = "combined" /\ SomeCongruent(input))
        => /\ combined.tag = "Err"
           /\ combined.val = <<>>

\* Well-formed shares of equal length, two of them with different abscissas
\* that are congruent modulo the prime: the inversion fails.
C13_Witness ==
    /\ pc = "combined"
    /\ AllDivisible(input)
    /\ \E i, k \in 1 .. Len(input) :
        /\ Congruent(input, i, k, 1)
        /\ XOf(input[i], 1) # XOf(input[k], 1)
    /\ combined = Err("FromOpenssl", "mod_inverse")

\* C14: every failure is an explicit error: for every min >= 0, every total
\* >= 0 and every secret, create returns either shares or an error and never
\* panics; min < 1 included.
C14_NeverPanics ==
    CreateCalled => (pc # "aborted" /\ created.tag # "Panic")

RECURSIVE SumLen(_)
SumLen(lists) ==
    IF Len(lists) = 0 THEN 0
    ELSE SumLen(SubSeq(lists, 1, Len(lists) - 1)) + Len(lists[Len(lists)])

\* The number of values of random that create_shares holds: the coefficients
\* after the first of every part, and one abscissa per share chunk written.
DrawsStored ==
    (SumLen(polynomial) - Len(polynomial))
    + (IF Len(coefficients) = 0 THEN 0 ELSE Len(coefficients) - 1)
    + (SumLen(results) + Len(bytes)) \div COEFFICIENTS_SIZE

\* The number of calls of random that returned no value.
DrawsFailed == draws - DrawsStored

\* C15: a failure of the random source is fatal and propagated: when a call
\* of random fails, create returns an error and no shares; it makes no further
\* call of random and puts no other value in the place of the failed one.
C15_RandomFailureFatal ==
    /\ DrawsFailed \in {0, 1}
    /\ DrawsFailed = 1
        => /\ pc = "returned"
           /\ created = Err("FromOpenssl", "rand_range")
           /\ created.val = <<>>

\* The call of random for the second share fails after a first share was
\* built.
C15_Witness ==
    /\ DrawsFailed = 1
    /\ Len(results) >= 1
    /\ pc = "returned"
    /\ created.tag = "Err"
    /\ created.val = <<>>

\* ------------------------------------- direct calls of bytes_to_big_nums and
\* ------------------------------------- big_nums_to_bytes
MaxBytes == 9

\* No call of create or combine is under way.
NoShareCall ==
    /\ min = 0
    /\ shares = 0
    /\ secret = <<>>
    /\ polynomial = <<>>
    /\ coefficients = <<>>
    /\ results = <<>>
    /\ bytes = <<>>
    /\ counter = 0
    /\ created = NoResult
    /\ draws = 0
    /\ input = <<>>
    /\ combined = NoResult
    /\ arithmetic = 0

\* Every byte string of up to MaxBytes bytes: whole chunks and a shorter
\* final chunk, leading zeros, all zeros, chunk values above the prime.
InitCodec ==
    /\ pc = "bytes"
    /\ NoShareCall
    /\ codec_bytes \in ListsUpTo(Byte, MaxBytes)
    /\ codec_nums = <<>>
    /\ codec_back = <<>>
    /\ eval_slice = <<>>
    /\ eval_value = 0
    /\ eval_result = 0

BytesToBigNums ==
    /\ pc = "bytes"
    /\ codec_nums' = bytes_to_big_nums(codec_bytes)
    /\ pc' = "big_nums"
    /\ UNCHANGED <<shareVars, evalVars, codec_bytes, codec_back>>

BigNumsToBytes ==
    /\ pc = "big_nums"
    /\ codec_back' = big_nums_to_bytes(codec_nums)
    /\ pc' = "bytes_again"
    /\ UNCHANGED <<shareVars, evalVars, codec_bytes, codec_nums>>

NextCodec ==
    \/ BytesToBigNums
    \/ BigNumsToBytes

SpecCodec == InitCodec /\ [][NextCodec]_vars

\* The direct calls of the two conversions together with the calls of combine
\* on given share lists.
InitSerialize == InitCodec \/ InitCombine

NextSerialize ==
    \/ BytesToBigNums
    \/ BigNumsToBytes
    \/ CombineStd
    \/ CombineInlined

SpecSerialize == InitSerialize /\ [][NextSerialize]_vars

\* ------------------------------------------------- direct calls of evaluate
MaxCoefficients == 3

\* The coefficient lists create_shares builds: the first coefficient is the
\* number of a secret chunk, the others are values of random.
RECURSIVE CoefficientLists(_)
CoefficientLists(n) ==
    IF n = 0 THEN {<<>>}
    ELSE IF n = 1
    THEN {<<>>} \cup {<<c>> : c \in 0 .. (ByteBase ^ U8S_TO_BIG_INT_INITIAL - 1)}
    ELSE LET shorter == CoefficientLists(n - 1)
         IN  shorter \cup {Append(l, c) : l \in shorter \ {<<>>},
                                          c \in random(DEFAULT_PRIME)}

InitEvaluate ==
    /\ pc = "slice"
    /\ NoShareCall
    /\ codec_bytes = <<>>
    /\ codec_nums = <<>>
    /\ codec_back = <<>>
    /\ eval_slice \in CoefficientLists(MaxCoefficients)
    /\ eval_value \in random(DEFAULT_PRIME)
    /\ eval_result = 0

Evaluate ==
    /\ pc = "slice"
    /\ eval_result' = evaluate(eval_slice, eval_value, DEFAULT_PRIME)
    /\ pc' = "evaluated"
    /\ UNCHANGED <<shareVars, codecVars, eval_slice, eval_value>>

NextEvaluate ==
    \/ Evaluate

SpecEvaluate == InitEvaluate /\ [][NextEvaluate]_vars

\* ------------------------------------------------ claims on operations.rs
RECURSIVE Pow(_, _)
Pow(x, n) == IF n = 0 THEN 1 ELSE x * Pow(x, n - 1)

\* The unsigned big-endian integer of a byte string: sum of b[k] * 256^(n-k).
RECURSIVE BigEndianSum(_, _)
BigEndianSum(b, k) ==
    IF k > Len(b) THEN 0
    ELSE b[k] * Pow(ByteBase, Len(b) - k) + BigEndianSum(b, k + 1)
BigEndianValue(b) == BigEndianSum(b, 1)

\* C16: the codec round trip: for every byte string b whose length is a
\* multiple of the chunk width (blocks with leading zeros, all-zero blocks and
\* blocks whose number is not below the prime included),
\* big_nums_to_bytes(bytes_to_big_nums(b)) = b.
C16_CodecRoundTrip ==
    (pc = "bytes_again" /\ is_proper_size(codec_bytes))
        => codec_back = codec_bytes

\* Three blocks: an all-zero block, a nonzero block with a leading zero, and
\* a block whose number is not below the prime.
C16_Witness ==
    /\ pc = "bytes_again"
    /\ Len(codec_bytes) = 3 * U8S_TO_BIG_INT_INITIAL
    /\ \E c, d, e \in 1 .. 3 :
        /\ BigEndianValue(Block(codec_bytes, c)) = 0
        /\ Block(codec_bytes, d)[1] = 0
        /\ BigEndianValue(Block(codec_bytes, d)) > 0
        /\ BigEndianValue(Block(codec_bytes, e)) >= DEFAULT_PRIME
    /\ codec_back = codec_bytes

\* C17: fixed-width serialization: big_nums_to_bytes emits for every element
\* it is given exactly one block of the chunk width, big-endian and
\* left-zero-padded, so its output length is the chunk width times the number
\* of elements; consequently the bytes combine returns have the length of
\* chunk_count blocks.
C17_FixedWidth ==
    /\ pc = "bytes_again"
        => /\ Len(codec_back) = U8S_TO_BIG_INT_INITIAL * Len(codec_nums)
           /\ \A i \in 1 .. Len(codec_nums) :
                BigEndianValue(Block(codec_back, i)) = codec_nums[i]
    /\ (pc = "combined" /\ combined.tag = "Ok")
        => Len(combined.val) = U8S_TO_BIG_INT_INITIAL *
              (IF Len(input) = 0 THEN 0 ELSE Len(input[1]) \div COEFFICIENTS_SIZE)

\* Three elements, among them 0 and 1, were serialized with their padding.
C17_Witness ==
    /\ pc = "bytes_again"
    /\ Len(codec_nums) = 3
    /\ \E i, k \in 1 .. 3 : codec_nums[i] = 0 /\ codec_nums[k] = 1
    /\ Len(codec_back) = 3 * U8S_TO_BIG_INT_INITIAL

\* C18: bytes_to_big_nums returns exactly ceil(len / width) elements; element
\* i is the big-endian integer of the bytes [width*i, min(width*i + width,
\* len)), so only the final chunk may be shorter; the empty input yields no
\* element.
C18_Chunking ==
    pc \in {"big_nums", "bytes_again"}
        => LET len == Len(codec_bytes)
               n == Len(codec_nums)
           IN  /\ n * U8S_TO_BIG_INT_INITIAL >= len
               /\ (n - 1) * U8S_TO_BIG_INT_INITIAL < len
               /\ len = 0 => codec_nums = <<>>
               /\ \A i \in 0 .. (n - 1) :
                    LET last == IF U8S_TO_BIG_INT_INITIAL * i + U8S_TO_BIG_INT_INITIAL < len
                                THEN U8S_TO_BIG_INT_INITIAL * i + U8S_TO_BIG_INT_INITIAL
                                ELSE len
                    IN  codec_nums[i + 1] =
                            BigEndianValue(SubSeq(codec_bytes,
                                                  U8S_TO_BIG_INT_INITIAL * i + 1, last))

\* Two whole chunks and a final chunk of one byte of value 1.
C18_Witness ==
    /\ pc = "big_nums"
    /\ Len(codec_bytes) = 2 * U8S_TO_BIG_INT_INITIAL + 1
    /\ Len(codec_nums) = 3
    /\ codec_nums[3] = 1
    /\ codec_nums[1] > 1

\* The sum of c[i] * x^i over the coefficients from index i (0-based) on.
RECURSIVE PowerSum(_, _, _)
PowerSum(c, i, x) ==
    IF i >= Len(c) THEN 0
    ELSE c[i + 1] * Pow(x, i) + PowerSum(c, i + 1, x)

\* C19: evaluate(coefficients, x, P) returns the sum of coefficients[i] * x^i
\* modulo P as a number in [0, P), for every coefficient list and every x; at
\* x = 0 it returns coefficients[0] mod P.
C19_EvaluateIsPolynomial ==
    pc = "evaluated"
        => /\ eval_result = PowerSum(eval_slice, 0, eval_value) % DEFAULT_PRIME
           /\ eval_result \in 0 .. (DEFAULT_PRIME - 1)
           /\ (eval_value = 0 /\ Len(eval_slice) >= 1)
                => eval_result = eval_slice[1] % DEFAULT_PRIME

\* A polynomial of degree two with a constant term not below the prime,
\* evaluated at an x above 1 where the unreduced sum exceeds the prime.
C19_Witness ==
    /\ pc = "evaluated"
    /\ Len(eval_slice) = 3
    /\ eval_slice[1] >= DEFAULT_PRIME
    /\ eval_slice[3] > 0
    /\ eval_value > 1
    /\ eval_result # eval_slice[1]
    /\ eval_result = PowerSum(eval_slice, 0, eval_value) % DEFAULT_PRIME

\* The products over the shares k # i, from share k on, of -x_k and of
\* x_i - x_k, for chunk c; not reduced.
RECURSIVE NumeratorProduct(_, _, _, _)
NumeratorProduct(list, c, i, k) ==
    IF k > Len(list) THEN 1
    ELSE (IF k = i THEN 1 ELSE 0 - XOf(list[k], c)) * NumeratorProduct(list, c, i, k + 1)

RECURSIVE DenominatorProduct(_, _, _, _)
DenominatorProduct(list, c, i, k) ==
    IF k > Len(list) THEN 1
    ELSE (IF k = i THEN 1 ELSE XOf(list[i], c) - XOf(list[k], c))
            * DenominatorProduct(list, c, i, k + 1)

\* The inverse of a modulo the prime, for a not a multiple of the prime.
InverseModPrime(a) ==
    CHOOSE b \in 1 .. (DEFAULT_PRIME - 1) : (a * b - 1) % DEFAULT_PRIME = 0

\* The Lagrange sum at 0 for chunk c from share i on; not reduced.
RECURSIVE LagrangeSum(_, _, _)
LagrangeSum(list, c, i) ==
    IF i > Len(list) THEN 0
    ELSE YOf(list[i], c) * NumeratorProduct(list, c, i, 1)
            * InverseModPrime(DenominatorProduct(list, c, i, 1))
         + LagrangeSum(list, c, i + 1)

\* C20: for every chunk j and every valid share list whose abscissas for that
\* chunk are pairwise distinct modulo the prime, block j of the bytes combine
\* returns is the Lagrange value at 0, the sum over i of y_i * prod(-x_k) *
\* inverse(prod(x_i - x_k)) over k # i, reduced into [0, P).
C20_LagrangeAtZero ==
    (/\ pc = "combined"
     /\ Len(input) >= 1
     /\ Len(input[1]) >= COEFFICIENTS_SIZE
     /\ DistinctAbscissas(input, Len(input[1]) \div COEFFICIENTS_SIZE))
        => /\ combined.tag = "Ok"
           /\ \A j \in 1 .. (Len(input[1]) \div COEFFICIENTS_SIZE) :
                LET block == BigEndianValue(Block(combined.val, j))
                IN  /\ block = LagrangeSum(input, j, 1) % DEFAULT_PRIME
                    /\ block \in 0 .. (DEFAULT_PRIME - 1)

\* Three shares of two chunks with distinct abscissas, where for a chunk a
\* product of differences is negative before its reduction and the value is
\* not 0.
C20_Witness ==
    /\ pc = "combined"
    /\ Len(input) = 3
    /\ Len(input[1]) = 2 * COEFFICIENTS_SIZE
    /\ DistinctAbscissas(input, 2)
    /\ combined.tag = "Ok"
    /\ \E j \in 1 .. 2 :
        /\ \E i \in 1 .. 3 : DenominatorProduct(input, j, i, 1) < 0
        /\ BigEndianValue(Block(combined.val, j)) > 0
        /\ BigEndianValue(Block(combined.val, j)) = LagrangeSum(input, j, 1) % DEFAULT_PRIME

\* ------------------------------------------------ claims on the share layout
\* C21: in the output of one create call there is for every chunk c a single
\* polynomial of exactly min coefficients whose constant term is the value of
\* chunk c, and in every one of the shares the first half of block c encodes
\* an abscissa x and the second half the value of that polynomial at x modulo
\* the prime; the coefficients are drawn once per chunk and not again per
\* share.
C21_OnePolynomialPerChunk ==
    CreatedOk =>
        LET n == ChunkCount(Len(secret))
        IN  /\ Len(polynomial) = n
            /\ \A c \in 1 .. n :
                /\ Len(polynomial[c]) = min
                /\ polynomial[c][1] = BigEndianValue(Block(secret, c))
                /\ \A s \in 1 .. Len(created.val) :
                    YOf(created.val[s], c)
                        = PowerSum(polynomial[c], 0, XOf(created.val[s], c)) % DEFAULT_PRIME
            /\ draws = n * (min - 1) + n * shares

\* create(2, 3, secret) returned three shares with different abscissas, all
\* on the one polynomial of the chunk, whose drawn coefficient is not 0.
C21_Witness ==
    /\ CreatedOk
    /\ min = 2
    /\ shares = 3
    /\ Len(polynomial) = 1
    /\ polynomial[1][2] # 0
    /\ Len(created.val) = 3
    /\ DistinctAbscissas(created.val, 1)
    /\ draws = 4

\* The numbers of the prime field.
Field == 0 .. (DEFAULT_PRIME - 1)

\* C22: every field value stored during create and combine lies in [0, P):
\* the elements decoded from the chunks of the secret, every polynomial
\* coefficient (the constant term included), every abscissa and ordinate of a
\* share, and every reconstructed chunk value.
C22_ValuesInField ==
    CreateCalled =>
        /\ \A c \in 1 .. Len(polynomial) : \A i \in 1 .. Len(polynomial[c]) :
            polynomial[c][i] \in Field
        /\ \A i \in 1 .. Len(coefficients) : coefficients[i] \in Field
        /\ \A s \in 1 .. Len(results) :
            \A c \in 1 .. (Len(results[s]) \div COEFFICIENTS_SIZE) :
                XOf(results[s], c) \in Field /\ YOf(results[s], c) \in Field
        /\ (pc = "combined" /\ combined.tag = "Ok") =>
            \A c \in 1 .. (Len(combined.val) \div U8S_TO_BIG_INT_INITIAL) :
                BigEndianValue(Block(combined.val, c)) \in Field

\* ------------------------------------------------ claims on combine's order
\* C23: in combine the structural validation of every input share (length a
\* multiple of the share chunk size, and equal lengths) completes before the
\* first interpolation step: a combine call that ends in a validation error
\* has performed no modular multiplication, subtraction or inversion.
C23_ValidationBeforeArithmetic ==
    pc = "combined" =>
        /\ (combined.tag = "Err" /\ combined.kind = "WithReason") => arithmetic = 0
        /\ arithmetic > 0 =>
            /\ AllDivisible(input)
            /\ \A i \in 1 .. Len(input) : Len(input[i]) = Len(input[1])

\* Combine rejected a list whose third share is malformed, after two
\* well-formed shares with different abscissas.
C23_Witness ==
    /\ pc = "combined"
    /\ Len(input) = 3
    /\ DistinctAbscissas(SubSeq(input, 1, 2), 1)
    /\ Len(input[3]) # COEFFICIENTS_SIZE
    /\ combined.tag = "Err"
    /\ combined.kind = "WithReason"
    /\ arithmetic = 0

\* The share with its window of chunk c replaced by the window w.
WithWindow(share, c, w) ==
    SubSeq(share, 1, (c - 1) * COEFFICIENTS_SIZE) \o w
        \o SubSeq(share, c * COEFFICIENTS_SIZE + 1, Len(share))

\* The windows put in the place of those of another chunk.
OtherWindows == {ShareOf(<<p>>) : p \in {<<1, 3>>, <<2, 0>>, <<3, 4>>}}

\* The list with the window of chunk o of share i replaced by ws[i].
WithWindows(list, o, ws) ==
    [i \in 1 .. Len(list) |-> WithWindow(list[i], o, ws[i])]

\* C24: per-chunk independence: when combine succeeds, block j of its output
\* depends only on the windows of chunk j of the input shares: changing the
\* points of another chunk in the shares, with combine still succeeding,
\* leaves block j unchanged.
C24_ChunkIndependence ==
    (pc = "combined" /\ combined.tag = "Ok" /\ Len(input) >= 1) =>
        LET cc == Len(input[1]) \div COEFFICIENTS_SIZE
        IN  \A j, o \in 1 .. cc :
                j # o =>
                    \A ws \in [1 .. Len(input) -> OtherWindows] :
                        LET other == combine_shares(WithWindows(input, o, ws))
                        IN  other.tag = "Ok"
                                => Block(other.val, j) = Block(combined.val, j)

\* Three two-chunk shares where other points for the first chunk change the
\* first block of the output and leave the second as it was.
C24_Witness ==
    /\ pc = "combined"
    /\ combined.tag = "Ok"
    /\ Len(input) = 3
    /\ Len(input[1]) = 2 * COEFFICIENTS_SIZE
    /\ \E ws \in [1 .. 3 -> OtherWindows] :
        LET other == combine_shares(WithWindows(input, 1, ws))
        IN  /\ other.tag = "Ok"
            /\ Block(other.val, 1) # Block(combined.val, 1)
            /\ Block(other.val, 2) = Block(combined.val, 2)
            /\ BigEndianValue(Block(combined.val, 2)) > 0

\* ------------------------------------------------ claims on the random draws
\* The values of random that create_shares holds, in the order of the calls:
\* the coefficients after the first of every part, then the abscissas.
RECURSIVE DrawnCoefficients(_)
DrawnCoefficients(parts) ==
    IF Len(parts) = 0 THEN <<>>
    ELSE DrawnCoefficients(SubSeq(parts, 1, Len(parts) - 1)) \o Tail(parts[Len(parts)])

Abscissas(share) == [c \in 1 .. (Len(share) \div COEFFICIENTS_SIZE) |-> XOf(share, c)]

RECURSIVE DrawnAbscissas(_)
DrawnAbscissas(res) ==
    IF Len(res) = 0 THEN <<>>
    ELSE DrawnAbscissas(SubSeq(res, 1, Len(res) - 1)) \o Abscissas(res[Len(res)])

DrawnValues ==
    DrawnCoefficients(polynomial)
        \o (IF Len(coefficients) = 0 THEN <<>> ELSE Tail(coefficients))
        \o DrawnAbscissas(results) \o Abscissas(bytes)

\* C25: successive calls of random(P) return pairwise distinct values, each
\* in [0, P): no value is returned twice within a run of draws.
C25_DrawsDistinct ==
    CreateCalled =>
        /\ \A i \in 1 .. Len(DrawnValues) : DrawnValues[i] \in Field
        /\ \A i, k \in 1 .. Len(DrawnValues) :
            i # k => DrawnValues[i] # DrawnValues[k]

\* ------------------------------------------------ claims on secrets above P
\* The number of chunk c of the secret.
ChunkValue(c) == BigEndianValue(Block(secret, c))

\* C26: the secret is not reduced on input: for a secret with a chunk whose
\* number v satisfies P <= v < 256^32, create succeeds (unless a call of
\* random fails), and combine of at least min of the shares, with distinct
\* abscissas, returns for that chunk v mod P, which is v - P and not v.
C26_LargeChunkReduced ==
    /\ (/\ pc \in {"returned", "combined"}
        /\ 1 <= min /\ min <= shares
        /\ Len(secret) > 0 /\ is_proper_size(secret)
        /\ \E c \in 1 .. ChunkCount(Len(secret)) : ChunkValue(c) >= DEFAULT_PRIME)
            => \/ created.tag = "Ok"
               \/ created = Err("FromOpenssl", "rand_range")
    /\ (/\ RoundTripDone
        /\ Len(input) >= min
        /\ DistinctAbscissas(input, Len(polynomial)))
            => /\ combined.tag = "Ok"
               /\ \A c \in 1 .. Len(polynomial) :
                    ChunkValue(c) >= DEFAULT_PRIME
                        => /\ BigEndianValue(Block(combined.val, c))
                                = ChunkValue(c) - DEFAULT_PRIME
                           /\ Block(combined.val, c) # Block(secret, c)

\* Two shares of create(2, 2, secret) for a chunk of value P + 1 combine to
\* the value 1.
C26_Witness ==
    /\ RoundTripDone
    /\ min = 2
    /\ Len(input) = 2
    /\ DistinctAbscissas(input, 1)
    /\ Len(secret) = U8S_TO_BIG_INT_INITIAL
    /\ ChunkValue(1) = DEFAULT_PRIME + 1
    /\ combined.tag = "Ok"
    /\ BigEndianValue(Block(combined.val, 1)) = 1

\* C27: the range of the abscissa draw includes 0: create does not exclude
\* x = 0, and a share point with x = 0 has y equal to the secret chunk modulo
\* the prime, so that this one share carries the value of the chunk in clear
\* whatever min is.
C27_ZeroAbscissa ==
    CreateCalled =>
        /\ 0 \in random(DEFAULT_PRIME)
        /\ \A s \in 1 .. Len(results) :
            \A c \in 1 .. (Len(results[s]) \div COEFFICIENTS_SIZE) :
                XOf(results[s], c) = 0
                    => YOf(results[s], c) = ChunkValue(c) % DEFAULT_PRIME

\* create(3, 3, secret) returned a share with abscissa 0 for a chunk of value
\* 4 whose polynomial has nonzero drawn coefficients.
C27_Witness ==
    /\ CreatedOk
    /\ min = 3
    /\ Len(secret) = U8S_TO_BIG_INT_INITIAL
    /\ ChunkValue(1) = 4
    /\ polynomial[1][2] # 0
    /\ polynomial[1][3] # 0
    /\ \E s \in 1 .. Len(results) :
        XOf(results[s], 1) = 0 /\ YOf(results[s], 1) = 4

\* ------------------------------------------------ claims on what combine accepts
\* The points of chunk c of the shares lie on one polynomial of m coefficients.
OnPolynomial(list, c, m) ==
    \E cs \in [1 .. m -> Field] :
        \A i \in 1 .. Len(list) :
            YOf(list[i], c) = evaluate(cs, XOf(list[i], c), DEFAULT_PRIME)

\* Shares as one create call with min = m returns them: of cc chunks, with
\* numbers in the field, for every chunk on one polynomial of m coefficients.
Genuine(list, cc, m) ==
    /\ \A i \in 1 .. Len(list) : Len(list[i]) = cc * COEFFICIENTS_SIZE
    /\ \A c \in 1 .. cc :
        /\ \A i \in 1 .. Len(list) :
            XOf(list[i], c) \in Field /\ YOf(list[i], c) \in Field
        /\ OnPolynomial(list, c, m)

\* The list without its share f.
Without(list, f) == SubSeq(list, 1, f - 1) \o SubSeq(list, f + 1, Len(list))

\* Share f of the list is one more share next to at least m genuine shares of
\* a create call with min = m, and with it the points of some chunk lie on no
\* polynomial of m coefficients.
Forged(list, cc, f, m) ==
    /\ Len(list) - 1 >= m
    /\ Genuine(Without(list, f), cc, m)
    /\ \E c \in 1 .. cc : ~OnPolynomial(list, c, m)

\* C28: combine does not check that the shares are mutually consistent: given
\* at least min genuine shares of one create call and one more share of the
\* same length holding other points, with abscissas distinct from the others,
\* combine returns a successful result and no error, although the points lie
\* on no polynomial of degree below min.
C28_NoConsistencyCheck ==
    (/\ pc = "combined"
     /\ Len(input) >= 2
     /\ Len(input[1]) >= COEFFICIENTS_SIZE
     /\ DistinctAbscissas(input, Len(input[1]) \div COEFFICIENTS_SIZE)
     /\ \E f \in 1 .. Len(input) : \E m \in 1 .. (Len(input) - 1) :
            Forged(input, Len(input[1]) \div COEFFICIENTS_SIZE, f, m))
        => /\ combined.tag = "Ok"
           /\ Len(combined.val)
                = (Len(input[1]) \div COEFFICIENTS_SIZE) * U8S_TO_BIG_INT_INITIAL

\* Two genuine shares of a create call with min = 2 and a third share off
\* their line: combine returns a value, another one than for the two shares.
C28_Witness ==
    /\ pc = "combined"
    /\ Len(input) = 3
    /\ DistinctAbscissas(input, 1)
    /\ Forged(input, 1, 3, 2)
    /\ combined.tag = "Ok"
    /\ combined # combine_shares(SubSeq(input, 1, 2))

\* C29: combine applied to an empty list of shares returns a successful
\* result that is the empty byte string; it reports no error and performs no
\* interpolation.
C29_EmptyList ==
    (pc = "combined" /\ Len(input) = 0)
        => /\ combined = Ok(<<>>)
           /\ arithmetic = 0

\* Combine was applied to the empty list.
C29_Witness ==
    /\ pc = "combined"
    /\ input = <<>>
    /\ combined.tag = "Ok"
    /\ combined.val = <<>>

\* Share i of the list is one the validation loop stops at: its length is no
\* multiple of the share chunk size, or differs from the first share's.
Offends(list, i) ==
    \/ Len(list[i]) % COEFFICIENTS_SIZE # 0
    \/ Len(list[i]) # Len(list[1])

\* The error the validation loop returns at share i.
ErrorAt(list, i) ==
    IF Len(list[i]) % COEFFICIENTS_SIZE # 0
    THEN Err("WithReason", ReasonNotDivisible)
    ELSE Err("WithReason", ReasonSameSize)

\* C30: combine validates the shares one by one in list order and stops at
\* the first offending share, so for a list that violates both constraints
\* (one share of a length that is no multiple of the share chunk size and
\* another of unequal length) the constraint reported depends on the order of
\* the list: the kind of validation error is not permutation-invariant.
C30_FirstOffenderDecides ==
    (pc = "combined" /\ \E i \in 1 .. Len(input) : Offends(input, i))
        => \E f \in 1 .. Len(input) :
            /\ Offends(input, f)
            /\ \A k \in 1 .. (f - 1) : ~Offends(input, k)
            /\ combined = ErrorAt(input, f)

\* A list that violates both constraints is rejected for its divisibility,
\* and the same shares in another order are rejected for their sizes.
C30_Witness ==
    /\ pc = "combined"
    /\ Len(input) = 3
    /\ SomeNotDivisible(input)
    /\ \E i \in 1 .. 3 : AllDivisible(<<input[i]>>) /\ Len(input[i]) # Len(input[1])
    /\ combined = Err("WithReason", ReasonNotDivisible)
    /\ \E perm \in Permutations(1 .. 3) :
        combine_shares(Permuted(input, perm)) = Err("WithReason", ReasonSameSize)

=============================================================================
